---- MODULE Spec2Model ----
(***************************************************************************)
(* Model of haproxy/haproxycfg.py: one synthesis cycle (run_haproxy) turns *)
(* a topology into the HAProxy configuration text and decides whether the  *)
(* balancer is reloaded.  The class attributes of Haproxy persist between  *)
(* cycles; the instance attributes live for one cycle.                     *)
(*                                                                         *)
(* Strings that the code formats are modelled as sequences of words, a     *)
(* section as a record [name, body] and an OrderedDict as a sequence of    *)
(* sections in insertion order.                                            *)
(***************************************************************************)
EXTENDS Integers, Sequences, FiniteSets, TLC

(***************************************************************************)
(* Bounds of the model.                                                    *)
(***************************************************************************)
\* services in a topology of the document specification
MaxServices == 2
\* certificates a topology carries
MaxCerts == 1
\* characters of a basic-auth string
MaxAuthLen == 4
\* services in a topology of the backend collapsing specification
CollapseServices == 3

None == "None"

(***************************************************************************)
(* Generic helpers.                                                        *)
(***************************************************************************)
Range(s) == {s[i] : i \in 1..Len(s)}

Contains(s, x) == \E i \in 1..Len(s) : s[i] = x

\* set(list): the elements of a list, order and repetition dropped
set(s) == Range(s)

\* sequences over S without repetition, of length at most n
RECURSIVE DistinctSeqs(_, _)
DistinctSeqs(S, n) ==
    IF n = 0 \/ S = {} THEN {<<>>}
    ELSE {<<>>} \cup UNION {{<<x>> \o t : t \in DistinctSeqs(S \ {x}, n - 1)} : x \in S}

\* every order in which the elements of S can be iterated
Perms(S) == {p \in DistinctSeqs(S, Cardinality(S)) : Len(p) = Cardinality(S)}

RECURSIVE Flatten(_)
Flatten(ss) == IF ss = <<>> THEN <<>> ELSE Head(ss) \o Flatten(Tail(ss))

(***************************************************************************)
(* OrderedDict: d[key] = value keeps the position of a key that is already *)
(* present and replaces its value; a new key goes to the end.              *)
(***************************************************************************)
HasKey(od, k) == \E i \in 1..Len(od) : od[i].name = k

SetItem(od, k, v) ==
    IF HasKey(od, k)
    THEN [i \in 1..Len(od) |-> IF od[i].name = k THEN [name |-> k, body |-> v] ELSE od[i]]
    ELSE Append(od, [name |-> k, body |-> v])

RECURSIVE DictUpdate(_, _)
DictUpdate(od, other) ==
    IF other = <<>> THEN od
    ELSE DictUpdate(SetItem(od, Head(other).name, Head(other).body), Tail(other))

GetItem(od, k) == (CHOOSE i \in 1..Len(od) : od[i].name = k)

Keys(od) == [i \in 1..Len(od) |-> od[i].name]

(***************************************************************************)
(* Topology (parser.Specs).  A service carries the attributes the cycle    *)
(* reads: its raw tcp port tokens, its virtual_host attribute and the      *)
(* ports of its routes.  A port token is <<"80">> or, with the explicit    *)
(* TLS flag, <<"ssl", "80">>.  The order of `services` is the order in     *)
(* which get_service_aliases() and the routes dictionary are iterated;     *)
(* port_order is the order in which set(tcp_ports) is iterated; ssl_certs  *)
(* is get_default_ssl_cert() followed by get_ssl_cert().                   *)
(***************************************************************************)
AliasNames == <<"a", "b", "c", "d">>

CertNames == <<"c1", "c2", "c3", "c4">>

Certs == {CertNames[i] : i \in 1..MaxCerts}

\* the services of the model: an HTTP service, one with a virtual host, a TCP
\* service, one with the explicit TLS flag, one with two TCP ports
ServiceKinds ==
    { [tcp_ports |-> <<>>,                   virtual_host |-> "",     routes |-> <<"80">>],
      [tcp_ports |-> <<>>,                   virtual_host |-> "host", routes |-> <<"80">>],
      [tcp_ports |-> <<<<"22">>>>,           virtual_host |-> "",     routes |-> <<"22">>],
      [tcp_ports |-> <<<<"ssl", "80">>>>,    virtual_host |-> "",     routes |-> <<"80">>],
      [tcp_ports |-> <<<<"22">>, <<"80">>>>, virtual_host |-> "",     routes |-> <<"22", "80">>] }

MakeService(a, k) ==
    [alias |-> a, tcp_ports |-> k.tcp_ports, virtual_host |-> k.virtual_host,
     routes |-> [i \in 1..Len(k.routes) |-> [alias |-> a, port |-> k.routes[i]]]]

\* the service lists of at most n services, aliases drawn from the first n names
ServiceLists(n) ==
    UNION { { [i \in 1..Len(as) |-> MakeService(as[i], ks[i])] : ks \in [1..Len(as) -> ServiceKinds] }
            : as \in DistinctSeqs({AliasNames[i] : i \in 1..n}, n) }

\* the certificate lists a topology carries
CertInputs == DistinctSeqs(Certs, MaxCerts)

\* TcpHelper.get_tcp_port_list: the tokens of all services, in alias order
get_tcp_port_list(services) == Flatten([i \in 1..Len(services) |-> services[i].tcp_ports])

\* the topologies over the given service lists and certificate lists
Topologies(lists, certs) ==
    UNION { { [services |-> s, port_order |-> o, ssl_certs |-> c] :
                o \in Perms(set(get_tcp_port_list(s))), c \in certs }
            : s \in lists }

\* the topologies of the cycle specification: no service, one HTTP service or
\* one TCP service, each with every certificate list
CycleTopologies ==
    Topologies({ <<>>,
                 <<MakeService("a", [tcp_ports |-> <<>>, virtual_host |-> "", routes |-> <<"80">>])>>,
                 <<MakeService("a", [tcp_ports |-> <<<<"22">>>>, virtual_host |-> "", routes |-> <<"22">>])>> },
               CertInputs)

\* the topologies of the document specification: every service list; the
\* certificates come from the settings
DocTopologies == Topologies(ServiceLists(MaxServices), {<<>>})

\* the topologies of the collapsing specification: CollapseServices services in
\* every alias order, each an HTTP service, one with a virtual host or a TCP service
CollapseTopologies ==
    LET names == {AliasNames[i] : i \in 1..CollapseServices}
        kinds == {k \in ServiceKinds : Len(k.tcp_ports) <= 1 /\ k.tcp_ports # <<<<"ssl", "80">>>>}
    IN  Topologies(UNION { { [i \in 1..CollapseServices |-> MakeService(as[i], ks[i])] :
                               ks \in [1..CollapseServices -> kinds] }
                           : as \in Perms(names) },
                   {<<>>})

(***************************************************************************)
(* parser.Specs and utils accessors.                                       *)
(***************************************************************************)
get_service_aliases(specs) == [i \in 1..Len(specs.services) |-> specs.services[i].alias]

\* the routes of every service, in the iteration order of the routes dictionary
get_routes(specs) == Flatten([i \in 1..Len(specs.services) |-> specs.services[i].routes])

\* the virtual hosts: one per service that declares virtual_host
get_vhosts(specs) == SelectSeq(specs.services, LAMBDA s : s.virtual_host # "")

Details(specs, alias) ==
    specs.services[CHOOSE i \in 1..Len(specs.services) : specs.services[i].alias = alias]

\* get_service_attribute(details, "tcp_ports") without an alias: true when
\* some service declares a tcp port
HasTcpPorts(specs) == \E i \in 1..Len(specs.services) : specs.services[i].tcp_ports # <<>>

(***************************************************************************)
(* Haproxy._config_ssl_certs / _config_ssl_cacerts.  Each returns the      *)
(* class attribute cls_certs after it, whether it set ssl_updated, whether *)
(* it called save_certs, and its part of the bind string.                  *)
(***************************************************************************)
LeafCerts(env, specs) ==
    (IF env.DEFAULT_SSL_CERT # "" THEN <<env.DEFAULT_SSL_CERT>> ELSE <<>>)
        \o env.EXTRA_SSL_CERT \o specs.ssl_certs

CaCerts(env) == IF env.DEFAULT_CA_CERT # "" THEN <<env.DEFAULT_CA_CERT>> ELSE <<>>

\* the leaf aggregator without its save_certs call
config_ssl_certs_unsaved(env, specs, certs_in) ==
    LET certs == LeafCerts(env, specs)
        changed == certs # <<>> /\ set(certs) # set(certs_in)
    IN  [cls_certs |-> IF changed THEN certs ELSE certs_in,
         updated |-> changed,
         events |-> <<>>,
         bind |-> IF certs # <<>> THEN <<"ssl", "crt", "/certs/">> ELSE <<>>]

config_ssl_certs(env, specs, certs_in) ==
    LET certs == LeafCerts(env, specs)
        changed == certs # <<>> /\ set(certs) # set(certs_in)
    IN  [cls_certs |-> IF changed THEN certs ELSE certs_in,
         updated |-> changed,
         events |-> IF changed THEN <<[op |-> "save_certs", arg |-> "CERT_DIR"]>> ELSE <<>>,
         bind |-> IF certs # <<>> THEN <<"ssl", "crt", "/certs/">> ELSE <<>>]

config_ssl_cacerts(env, certs_in) ==
    LET cacerts == CaCerts(env)
        changed == cacerts # <<>> /\ set(cacerts) # set(certs_in)
    IN  [cls_certs |-> IF changed THEN cacerts ELSE certs_in,
         updated |-> changed,
         events |-> IF changed THEN <<[op |-> "save_certs", arg |-> "CACERT_DIR"]>> ELSE <<>>,
         bind |-> IF cacerts # <<>>
                  THEN <<"ca-file", "/cacerts/cert0.pem", "verify", "required">> ELSE <<>>]

\* Haproxy._config_ssl: the leaf aggregator, then the CA aggregator on the
\* class attribute the leaf aggregator left; ssl_bind_string stays None when
\* both parts are empty
config_ssl(env, specs, certs_in) ==
    LET leaf == config_ssl_certs(env, specs, certs_in)
        ca   == config_ssl_cacerts(env, leaf.cls_certs)
    IN  [cls_certs |-> ca.cls_certs,
         leaf_updated |-> leaf.updated,
         ca_updated |-> ca.updated,
         ssl_updated |-> leaf.updated \/ ca.updated,
         events |-> leaf.events \o ca.events,
         ssl_bind_string |-> leaf.bind \o ca.bind]

(***************************************************************************)
(* TCP sections: Haproxy._config_tcp_sections and get_tcp_section, with    *)
(* the TcpHelper functions they call.                                      *)
(***************************************************************************)
\* TcpHelper.parse_port_string: (enable_ssl, port_num) of a raw token.  TLS is
\* explicit in the token or inherited from the configured certificates
parse_port_string(tcp_port, ssl_bind_string) ==
    IF Len(tcp_port) = 2 /\ tcp_port[1] = "ssl"
    THEN [enable_ssl |-> TRUE, port_num |-> tcp_port[2]]
    ELSE [enable_ssl |-> ssl_bind_string # <<>>, port_num |-> tcp_port[1]]

\* utils.get_bind_string: port number, then the TLS suffix when enabled
get_bind_string(enable_ssl, port_num, ssl_bind_string) ==
    <<port_num>> \o (IF enable_ssl THEN ssl_bind_string ELSE <<>>)

ServerLine(route) == <<"server", route.alias, route.port>>

\* TcpHelper.get_tcp_routes: the routes of the services that declare the token
\* and that lead to its port number; these are the routes the section consumes
get_tcp_routes(specs, tcp_port, port_num) ==
    LET consumed == SelectSeq(get_routes(specs),
                        LAMBDA r : /\ Contains(Details(specs, r.alias).tcp_ports, tcp_port)
                                   /\ r.port = port_num)
    IN  [tcp_routes |-> [i \in 1..Len(consumed) |-> ServerLine(consumed[i])],
         routes_added |-> consumed]

\* TcpHelper.get_service_aliases_given_tcp_port
get_service_aliases_given_tcp_port(specs, tcp_port) ==
    SelectSeq(get_service_aliases(specs),
              LAMBDA a : Contains(Details(specs, a).tcp_ports, tcp_port))

\* Haproxy.get_tcp_section: the section, its port number and the value it
\* assigns to self.routes_added
get_tcp_section(specs, ssl_bind_string, tcp_port) ==
    LET p == parse_port_string(tcp_port, ssl_bind_string)
        bind_string == get_bind_string(p.enable_ssl, p.port_num, ssl_bind_string)
        r == get_tcp_routes(specs, tcp_port, p.port_num)
    IN  [tcp_section |-> <<<<"bind">> \o bind_string, <<"mode", "tcp">>>> \o r.tcp_routes,
         port_num |-> p.port_num,
         routes_added |-> r.routes_added]

\* the loop of _config_tcp_sections over the tokens in iteration order; each
\* get_tcp_section call assigns self.routes_added anew
RECURSIVE TcpLoop(_, _, _, _)
TcpLoop(specs, ssl_bind_string, order, acc) ==
    IF order = <<>> THEN acc
    ELSE LET t == get_tcp_section(specs, ssl_bind_string, Head(order))
         IN  TcpLoop(specs, ssl_bind_string, Tail(order),
                     [cfg |-> SetItem(acc.cfg, <<"listen", "port", t.port_num>>, t.tcp_section),
                      routes_added |-> t.routes_added])

\* Haproxy._config_tcp_sections; self.routes_added is [] from __init__
config_tcp_sections(specs, ssl_bind_string) ==
    IF ~HasTcpPorts(specs) THEN [cfg |-> <<>>, routes_added |-> <<>>]
    ELSE TcpLoop(specs, ssl_bind_string, specs.port_order, [cfg |-> <<>>, routes_added |-> <<>>])

(***************************************************************************)
(* Frontend sections: Haproxy._config_frontend_sections and the            *)
(* FrontendHelper functions it calls.                                      *)
(***************************************************************************)
\* FrontendHelper.check_require_default_route: some route is not in routes_added
check_require_default_route(routes, routes_added) ==
    \E i \in 1..Len(routes) : ~Contains(routes_added, routes[i])

HttpBinds(ssl_bind_string) ==
    <<<<"bind", "80">>>> \o
    (IF ssl_bind_string # <<>> THEN <<<<"bind", "443">> \o ssl_bind_string>> ELSE <<>>)

\* FrontendHelper.config_frontend_with_virtual_host: one frontend, one host
\* rule per virtual host selecting the backend of its service
config_frontend_with_virtual_host(vhosts, ssl_bind_string) ==
    <<[name |-> <<"frontend", "default_port_80">>,
       body |-> HttpBinds(ssl_bind_string) \o
                [i \in 1..Len(vhosts) |->
                    <<"use_backend", "SERVICE", vhosts[i].alias, "if", "host", vhosts[i].virtual_host>>]]>>

\* FrontendHelper.config_default_frontend: the catch-all frontend
config_default_frontend(ssl_bind_string) ==
    <<[name |-> <<"frontend", "default_frontend">>,
       body |-> HttpBinds(ssl_bind_string) \o <<<<"default_backend", "default_service">>>>]>>

\* FrontendHelper.config_monitor_frontend: appended unless a frontend above
\* declared the monitoring URI (none of the frontends above does)
config_monitor_frontend(monitor_uri_configured) ==
    IF monitor_uri_configured THEN <<>>
    ELSE <<[name |-> <<"frontend", "monitor">>,
            body |-> <<<<"bind", "MONITOR_PORT">>, <<"monitor-uri", "MONITOR_URI">>>>]>>

\* Haproxy._config_frontend_sections: the sections and self.require_default_route
\* (False from __init__ when virtual hosts exist)
config_frontend_sections(specs, ssl_bind_string, routes_added) ==
    LET vhosts == get_vhosts(specs)
        require == check_require_default_route(get_routes(specs), routes_added)
    IN  IF vhosts # <<>>
        THEN [cfg |-> DictUpdate(config_frontend_with_virtual_host(vhosts, ssl_bind_string),
                                 config_monitor_frontend(FALSE)),
              require_default_route |-> FALSE]
        ELSE [cfg |-> DictUpdate(IF require THEN config_default_frontend(ssl_bind_string) ELSE <<>>,
                                 config_monitor_frontend(FALSE)),
              require_default_route |-> require]

(***************************************************************************)
(* Backend sections: Haproxy._config_backend_sections and                  *)
(* BackendHelper.get_backend_section.                                      *)
(***************************************************************************)
Lexicon == <<"22", "443", "80", "a", "b", "c", "d">>

StrRank(w) == CHOOSE i \in 1..Len(Lexicon) : Lexicon[i] = w

\* the order of sorted() on two server lines
LineBefore(x, y) ==
    \/ StrRank(x[2]) < StrRank(y[2])
    \/ x[2] = y[2] /\ StrRank(x[3]) <= StrRank(y[3])

RECURSIVE SortedLines(_)
SortedLines(S) ==
    IF S = {} THEN <<>>
    ELSE LET m == CHOOSE x \in S : \A y \in S : LineBefore(x, y)
         IN  <<m>> \o SortedLines(S \ {m})

\* BackendHelper.get_backend_section: the server entries of the alias (of every
\* service for the pseudo-alias None) whose route no TCP section recorded in
\* routes_added, sorted
get_backend_section(specs, service_alias, routes_added) ==
    LET mine == SelectSeq(get_routes(specs),
                    LAMBDA r : /\ (service_alias = None \/ r.alias = service_alias)
                               /\ ~Contains(routes_added, r))
    IN  SortedLines({ServerLine(mine[i]) : i \in 1..Len(mine)})

\* the loop keeping the first backend written under a name
RECURSIVE BackendLoop_keepfirst(_, _, _, _, _)
BackendLoop_keepfirst(specs, routes_added, require_default_route, aliases, cfg) ==
    IF aliases = <<>> THEN cfg
    ELSE LET service_alias == Head(aliases)
             backend == get_backend_section(specs, service_alias, routes_added)
             key == IF service_alias # None /\ Details(specs, service_alias).virtual_host # ""
                    THEN <<"backend", "SERVICE", service_alias>>
                    ELSE <<"backend", "default_service">>
             next == IF (service_alias = None /\ ~require_default_route) \/ HasKey(cfg, key)
                     THEN cfg
                     ELSE SetItem(cfg, key, backend)
         IN  BackendLoop_keepfirst(specs, routes_added, require_default_route, Tail(aliases), next)

RECURSIVE BackendLoop(_, _, _, _, _)
BackendLoop(specs, routes_added, require_default_route, aliases, cfg) ==
    IF aliases = <<>> THEN cfg
    ELSE LET service_alias == Head(aliases)
             backend == get_backend_section(specs, service_alias, routes_added)
             next == IF service_alias = None
                     THEN (IF require_default_route
                           THEN SetItem(cfg, <<"backend", "default_service">>, backend)
                           ELSE cfg)
                     ELSE (IF Details(specs, service_alias).virtual_host # ""
                           THEN SetItem(cfg, <<"backend", "SERVICE", service_alias>>, backend)
                           ELSE SetItem(cfg, <<"backend", "default_service">>, backend))
         IN  BackendLoop(specs, routes_added, require_default_route, Tail(aliases), next)

\* Haproxy._config_backend_sections
config_backend_sections(specs, routes_added, require_default_route) ==
    BackendLoop(specs, routes_added, require_default_route,
                IF get_vhosts(specs) = <<>> THEN <<None>> ELSE get_service_aliases(specs),
                <<>>)

(***************************************************************************)
(* The fixed sections.  A setting of haproxy.config is written by its      *)
(* name, which stands for its value.                                       *)
(***************************************************************************)
config_global_section ==
    <<[name |-> <<"global">>,
       body |-> << <<"log", "RSYSLOG_DESTINATION", "local0">>,
                   <<"log", "RSYSLOG_DESTINATION", "local1", "notice">>,
                   <<"log-send-hostname">>,
                   <<"maxconn", "MAXCONN">>,
                   <<"pidfile", "/var/run/haproxy.pid">>,
                   <<"user", "haproxy">>,
                   <<"group", "haproxy">>,
                   <<"daemon">>,
                   <<"stats", "socket", "/var/run/haproxy.stats", "level", "admin">> >>]>>

config_defaults_section ==
    <<[name |-> <<"defaults">>,
       body |-> << <<"balance", "BALANCE">>, <<"log", "global">>, <<"mode", "MODE">> >>]>>

config_stats_section ==
    <<[name |-> <<"listen", "stats">>,
       body |-> << <<"bind", "STATS_PORT">>,
                   <<"mode", "http">>,
                   <<"stats", "enable">>,
                   <<"timeout", "connect", "10s">>,
                   <<"timeout", "client", "1m">>,
                   <<"timeout", "server", "1m">>,
                   <<"stats", "hide-version">>,
                   <<"stats", "realm", "Haproxy\\ Statistics">>,
                   <<"stats", "uri", "/">>,
                   <<"stats", "auth", "STATS_AUTH">> >>]>>

(***************************************************************************)
(* Haproxy._config_userlist_section.  The basic-auth string is a sequence  *)
(* of characters.                                                          *)
(***************************************************************************)
\* re.split(r'(?<!\\),', basic_auth): cut at every comma not preceded by a backslash
RECURSIVE SplitAuth(_, _, _, _)
SplitAuth(str, i, cur, acc) ==
    IF i > Len(str) THEN Append(acc, cur)
    ELSE IF str[i] = "," /\ (i = 1 \/ str[i - 1] # "\\")
         THEN SplitAuth(str, i + 1, <<>>, Append(acc, cur))
         ELSE SplitAuth(str, i + 1, Append(cur, str[i]), acc)

\* str.strip()
RECURSIVE Strip(_)
Strip(str) ==
    IF str = <<>> THEN <<>>
    ELSE IF Head(str) = " " THEN Strip(Tail(str))
    ELSE IF str[Len(str)] = " " THEN Strip(SubSeq(str, 1, Len(str) - 1))
    ELSE str

\* str.split(":", 1)
SplitColon(str) ==
    IF Contains(str, ":")
    THEN LET k == CHOOSE i \in 1..Len(str) : str[i] = ":" /\ \A j \in 1..(i - 1) : str[j] # ":"
         IN  <<SubSeq(str, 1, k - 1), SubSeq(str, k + 1, Len(str))>>
    ELSE <<str>>

\* a field left as it is written, escapes included
Unescape_kept(str) == str

\* str.replace("\,", ",")
RECURSIVE Unescape(_)
Unescape(str) ==
    IF Len(str) < 2 THEN str
    ELSE IF str[1] = "\\" /\ str[2] = "," THEN <<",">> \o Unescape(SubSeq(str, 3, Len(str)))
    ELSE <<str[1]>> \o Unescape(Tail(str))

RECURSIVE UserLines(_)
UserLines(auth_list) ==
    IF auth_list = <<>> THEN <<>>
    ELSE LET terms == SplitColon(Strip(Head(auth_list)))
         IN  (IF Strip(Head(auth_list)) # <<>> /\ Len(terms) = 2
              THEN <<<<"user">> \o Unescape(terms[1]) \o <<"insecure-password">> \o Unescape(terms[2])>>
              ELSE <<>>) \o UserLines(Tail(auth_list))

config_userlist_section(basic_auth) ==
    IF basic_auth = <<>> THEN <<>>
    ELSE LET userlist == UserLines(SplitAuth(basic_auth, 1, <<>>, <<>>))
         IN  IF userlist # <<>>
             THEN <<[name |-> <<"userlist", "haproxy_userlist">>, body |-> userlist]>>
             ELSE <<>>

(***************************************************************************)
(* The document of a cycle: the section assembly of Haproxy.update and     *)
(* utils.prettify.                                                         *)
(***************************************************************************)
\* the sections update() derives from the topology, in the order it derives
\* them, with the instance attributes they set
topology_sections(specs, ssl_bind_string) ==
    LET tcp == config_tcp_sections(specs, ssl_bind_string)
        fe  == config_frontend_sections(specs, ssl_bind_string, tcp.routes_added)
        be  == config_backend_sections(specs, tcp.routes_added, fe.require_default_route)
    IN  [tcp |-> tcp.cfg, frontend |-> fe.cfg, backend |-> be,
         routes_added |-> tcp.routes_added,
         require_default_route |-> fe.require_default_route]

\* the bind strings _config_ssl can produce
BindStrings ==
    { leaf \o ca : leaf \in {<<>>, <<"ssl", "crt", "/certs/">>},
                   ca \in {<<>>, <<"ca-file", "/cacerts/cert0.pem", "verify", "required">>} }

\* topology_sections, evaluated once for each topology and bind string
CycleSections ==
    [specs \in CycleTopologies, ssl_bind_string \in BindStrings |->
        topology_sections(specs, ssl_bind_string)]

DocSections ==
    [specs \in DocTopologies, ssl_bind_string \in BindStrings |->
        topology_sections(specs, ssl_bind_string)]

SectionsTable(specs, ssl_bind_string) ==
    IF specs \in CycleTopologies
    THEN CycleSections[specs, ssl_bind_string]
    ELSE IF specs \in DocTopologies
    THEN DocSections[specs, ssl_bind_string]
    ELSE topology_sections(specs, ssl_bind_string)

\* the document assembled with the backends ahead of the frontends
assemble_sections_swapped(env, top) ==
    LET d1  == DictUpdate(<<>>, config_global_section)
        d2  == DictUpdate(d1, config_defaults_section)
        d3  == DictUpdate(d2, config_stats_section)
        d4  == DictUpdate(d3, config_userlist_section(env.HTTP_BASIC_AUTH))
        d5  == DictUpdate(d4, top.tcp)
        d6  == DictUpdate(d5, top.backend)
        d7  == DictUpdate(d6, top.frontend)
    IN  [cfg_dict |-> d7,
         routes_added |-> top.routes_added,
         require_default_route |-> top.require_default_route]

\* the OrderedDict update() builds from the sections, in its fixed order
assemble_sections(env, top) ==
    LET d1  == DictUpdate(<<>>, config_global_section)
        d2  == DictUpdate(d1, config_defaults_section)
        d3  == DictUpdate(d2, config_stats_section)
        d4  == DictUpdate(d3, config_userlist_section(env.HTTP_BASIC_AUTH))
        d5  == DictUpdate(d4, top.tcp)
        d6  == DictUpdate(d5, top.frontend)
        d7  == DictUpdate(d6, top.backend)
    IN  [cfg_dict |-> d7,
         routes_added |-> top.routes_added,
         require_default_route |-> top.require_default_route]

\* the section assembly of update(), with the instance attributes it sets
config_dict(env, specs, ssl_bind_string) ==
    assemble_sections(env, SectionsTable(specs, ssl_bind_string))

\* utils.prettify: the section name on a line of its own, each statement
\* indented below it
RECURSIVE prettify(_)
prettify(cfg_dict) ==
    IF cfg_dict = <<>> THEN <<>>
    ELSE <<[indent |-> FALSE, text |-> Head(cfg_dict).name]>>
         \o [i \in 1..Len(Head(cfg_dict).body) |-> [indent |-> TRUE, text |-> Head(cfg_dict).body[i]]]
         \o prettify(Tail(cfg_dict))

(***************************************************************************)
(* Haproxy._update_haproxy and the UpdateHelper / utils calls it makes.    *)
(* An event records one call that leaves the process: save_certs,          *)
(* save_to_file, run_reload, run_once, with its outcome.                   *)
(***************************************************************************)
\* Haproxy.cls_cfg before the first cycle, and the config file before the first
\* write; a document always has its global section, so no text equals it
NoCfg == <<>>

\* Haproxy.cls_process before the first launch
NoProcess == None

Event(op, arg) == [op |-> op, arg |-> arg]

Outcome(ok) == IF ok THEN "ok" ELSE "failed"

ApiMode(env) ==
    env.HAPROXY_SERVICE_URI # "" /\ env.HAPROXY_CONTAINER_URI # "" /\ env.API_AUTH # ""

\* UpdateHelper.run_reload: the handle of the launched process; a reload that
\* fails raises before the handle is assigned
run_reload(old_process, reload_ok) == IF reload_ok THEN "process" ELSE old_process

\* utils.save_to_file: the text of the file after the call; a failed write
\* leaves the file as it was
save_to_file(file, cfg, write_ok) == IF write_ok THEN cfg ELSE file

\* _update_haproxy reloading whatever save_to_file returned
update_haproxy_unchecked(env, cfg, ssl_updated, cls, write_ok, reload_ok) ==
    IF ApiMode(env)
    THEN IF cls.cfg # cfg
         THEN [cfg |-> cfg,
               process |-> run_reload(cls.process, reload_ok),
               file |-> save_to_file(cls.file, cfg, write_ok),
               events |-> <<Event("save_to_file", Outcome(write_ok)),
                            Event("run_reload", Outcome(reload_ok))>>]
         ELSE IF ssl_updated
         THEN [cfg |-> cls.cfg,
               process |-> run_reload(cls.process, reload_ok),
               file |-> cls.file,
               events |-> <<Event("run_reload", Outcome(reload_ok))>>]
         ELSE [cfg |-> cls.cfg, process |-> cls.process, file |-> cls.file, events |-> <<>>]
    ELSE [cfg |-> cls.cfg,
          process |-> cls.process,
          file |-> save_to_file(cls.file, cfg, write_ok),
          events |-> <<Event("save_to_file", Outcome(write_ok)), Event("run_once", "ok")>>]

\* _update_haproxy testing ssl_updated after the text branch instead of in place of it
update_haproxy_both(env, cfg, ssl_updated, cls, write_ok, reload_ok) ==
    IF ApiMode(env)
    THEN [cfg |-> cfg,
          process |-> IF (cls.cfg # cfg /\ write_ok) \/ ssl_updated
                      THEN run_reload(cls.process, reload_ok) ELSE cls.process,
          file |-> IF cls.cfg # cfg THEN save_to_file(cls.file, cfg, write_ok) ELSE cls.file,
          events |-> (IF cls.cfg # cfg THEN <<Event("save_to_file", Outcome(write_ok))>> ELSE <<>>)
                     \o (IF cls.cfg # cfg /\ write_ok
                         THEN <<Event("run_reload", Outcome(reload_ok))>> ELSE <<>>)
                     \o (IF ssl_updated THEN <<Event("run_reload", Outcome(reload_ok))>> ELSE <<>>)]
    ELSE [cfg |-> cls.cfg,
          process |-> cls.process,
          file |-> save_to_file(cls.file, cfg, write_ok),
          events |-> <<Event("save_to_file", Outcome(write_ok)), Event("run_once", "ok")>>]

\* _update_haproxy detecting changes whatever the mode is
update_haproxy_detecting(env, cfg, ssl_updated, cls, write_ok, reload_ok) ==
    IF cls.cfg # cfg
    THEN [cfg |-> cfg,
          process |-> IF write_ok THEN run_reload(cls.process, reload_ok) ELSE cls.process,
          file |-> save_to_file(cls.file, cfg, write_ok),
          events |-> <<Event("save_to_file", Outcome(write_ok))>>
                     \o (IF write_ok THEN <<Event("run_reload", Outcome(reload_ok))>> ELSE <<>>)]
    ELSE IF ssl_updated
    THEN [cfg |-> cls.cfg,
          process |-> run_reload(cls.process, reload_ok),
          file |-> cls.file,
          events |-> <<Event("run_reload", Outcome(reload_ok))>>]
    ELSE [cfg |-> cls.cfg, process |-> cls.process, file |-> cls.file, events |-> <<>>]

\* Haproxy._update_haproxy on the class attributes cls and the config file
update_haproxy(env, cfg, ssl_updated, cls, write_ok, reload_ok) ==
    IF ApiMode(env)
    THEN IF cls.cfg # cfg
         THEN [cfg |-> cfg,
               process |-> IF write_ok THEN run_reload(cls.process, reload_ok) ELSE cls.process,
               file |-> save_to_file(cls.file, cfg, write_ok),
               events |-> <<Event("save_to_file", Outcome(write_ok))>>
                          \o (IF write_ok THEN <<Event("run_reload", Outcome(reload_ok))>> ELSE <<>>)]
         ELSE IF ssl_updated
         THEN [cfg |-> cls.cfg,
               process |-> run_reload(cls.process, reload_ok),
               file |-> cls.file,
               events |-> <<Event("run_reload", Outcome(reload_ok))>>]
         ELSE [cfg |-> cls.cfg, process |-> cls.process, file |-> cls.file, events |-> <<>>]
    ELSE [cfg |-> cls.cfg,
          process |-> cls.process,
          file |-> save_to_file(cls.file, cfg, write_ok),
          events |-> <<Event("save_to_file", Outcome(write_ok)), Event("run_once", "ok")>>]

\* the class and instance attributes after update(), given what its steps returned
update_result(specs, ssl, doc, cfg, upd) ==
        [cls |-> [cfg |-> upd.cfg, certs |-> ssl.cls_certs, process |-> upd.process,
                  file |-> upd.file],
         self |-> [specs |-> specs,
                   ssl_updated |-> ssl.ssl_updated,
                   leaf_updated |-> ssl.leaf_updated,
                   ca_updated |-> ssl.ca_updated,
                   ssl_bind_string |-> ssl.ssl_bind_string,
                   routes_added |-> doc.routes_added,
                   require_default_route |-> doc.require_default_route,
                   cfg_dict |-> doc.cfg_dict,
                   cfg |-> cfg,
                   events |-> ssl.events \o upd.events]]

\* update() from prettify on: the text, then _update_haproxy
update_text(env, specs, cls, write_ok, reload_ok, ssl, doc, cfg) ==
    update_result(specs, ssl, doc, cfg,
                  update_haproxy(env, cfg, ssl.ssl_updated, cls, write_ok, reload_ok))

\* update() after _config_ssl: the section assembly and the rest
update_sections(env, specs, cls, write_ok, reload_ok, ssl, doc) ==
    update_text(env, specs, cls, write_ok, reload_ok, ssl, doc, prettify(doc.cfg_dict))

update_after_ssl(env, specs, cls, write_ok, reload_ok, ssl) ==
    update_sections(env, specs, cls, write_ok, reload_ok, ssl,
                    config_dict(env, specs, ssl.ssl_bind_string))

\* Haproxy.update: _config_ssl, the section assembly, prettify, _update_haproxy
update(env, specs, cls, write_ok, reload_ok) ==
    update_after_ssl(env, specs, cls, write_ok, reload_ok, config_ssl(env, specs, cls.certs))

(***************************************************************************)
(* State.                                                                  *)
(***************************************************************************)
VARIABLES
    env,          \* the settings of haproxy.config, read once per process
    cls_cfg,      \* Haproxy.cls_cfg
    cls_certs,    \* Haproxy.cls_certs
    cls_process,  \* Haproxy.cls_process
    config_file,  \* the text of HAPROXY_CONFIG_FILE on disk
    self,         \* the Haproxy instance of the last cycle, with what it did
    hist,         \* how the last cycle relates to the state it started from
    cycles        \* 0 before the first cycle, then 1 and 2 in turn: every cycle is a step

vars == <<env, cls_cfg, cls_certs, cls_process, config_file, self, hist, cycles>>

Envs ==
    [HAPROXY_SERVICE_URI : {"", "service_uri"},
     HAPROXY_CONTAINER_URI : {"", "container_uri"},
     API_AUTH : {"", "auth"},
     DEFAULT_SSL_CERT : {"", "c0"},
     DEFAULT_CA_CERT : {"", "ca"},
     EXTRA_SSL_CERT : {<<>>},
     HTTP_BASIC_AUTH : {<<>>}]

NoSpecs == [services |-> <<>>, port_order |-> <<>>, ssl_certs |-> <<>>]

\* Haproxy.__init__: the instance attributes before update()
NoInstance ==
    [specs |-> NoSpecs, ssl_updated |-> FALSE, leaf_updated |-> FALSE, ca_updated |-> FALSE,
     ssl_bind_string |-> <<>>, routes_added |-> <<>>, require_default_route |-> FALSE,
     cfg_dict |-> <<>>, cfg |-> NoCfg, events |-> <<>>]

Cls == [cfg |-> cls_cfg, certs |-> cls_certs, process |-> cls_process, file |-> config_file]

\* same_inputs: the cycle ran on the topology of the cycle before it;
\* text_differs: its text differed from Haproxy.cls_cfg as it found it;
\* leaf_before: the leaf certificates of the latest earlier cycle that had any
History(r) ==
    [same_inputs |-> cycles # 0 /\ r.self.specs = self.specs,
     text_differs |-> r.self.cfg # cls_cfg,
     leaf_before |-> IF cycles # 0 /\ LeafCerts(env, self.specs) # <<>>
                     THEN set(LeafCerts(env, self.specs))
                     ELSE hist.leaf_before]

\* the class attributes as the class statement leaves them, no cycle run yet
Start ==
    /\ cls_cfg = NoCfg
    /\ cls_certs = <<>>
    /\ cls_process = NoProcess
    /\ config_file = NoCfg
    /\ self = NoInstance
    /\ hist = [same_inputs |-> FALSE, text_differs |-> FALSE, leaf_before |-> {}]
    /\ cycles = 0

\* a process in API mode: the three API settings are set
Init == env \in {e \in Envs : ApiMode(e)} /\ Start

\* a process that reads its definition from the environment: some API setting
\* is unset; its leaf certificates come with the topology
InitNoApi == env \in {e \in Envs : ~ApiMode(e) /\ e.DEFAULT_SSL_CERT = ""} /\ Start

\* run_haproxy: one cycle on the topology the discovery delivers; the write and
\* the reload succeed or fail
Cycle(r) ==
    /\ cls_cfg' = r.cls.cfg
    /\ cls_certs' = r.cls.certs
    /\ cls_process' = r.cls.process
    /\ config_file' = r.cls.file
    /\ self' = r.self
    /\ hist' = History(r)
    /\ cycles' = IF cycles = 1 THEN 2 ELSE 1
    /\ UNCHANGED env

run_haproxy(topologies) ==
    \E specs \in topologies, write_ok \in BOOLEAN, reload_ok \in BOOLEAN :
        Cycle(update(env, specs, Cls, write_ok, reload_ok))

Next == run_haproxy(CycleTopologies)

Spec == Init /\ [][Next]_vars

\* the document of one cycle, over the larger topologies
NextDoc == cycles = 0 /\ run_haproxy(DocTopologies)

SpecDoc == Init /\ [][NextDoc]_vars

\* the cycles of a process outside API mode
SpecNoApi == InitNoApi /\ [][Next]_vars

\* the basic-auth string of the specification's example: alice:secret,bob:pw\,2
ExampleAuth ==
    <<"a", "l", "i", "c", "e", ":", "s", "e", "c", "r", "e", "t", ",",
      "b", "o", "b", ":", "p", "w", "\\", ",", "2">>

\* a process in API mode with or without HTTP_BASIC_AUTH and a default certificate
InitOrder ==
    /\ env \in {e \in [HAPROXY_SERVICE_URI : {"service_uri"},
                        HAPROXY_CONTAINER_URI : {"container_uri"},
                        API_AUTH : {"auth"},
                        DEFAULT_SSL_CERT : {"", "c0"},
                        DEFAULT_CA_CERT : {""},
                        EXTRA_SSL_CERT : {<<>>},
                        HTTP_BASIC_AUTH : {<<>>, ExampleAuth}] : ApiMode(e)}
    /\ Start

\* the document of one cycle, with and without a userlist
SpecOrder == InitOrder /\ [][NextDoc]_vars

\* the document of one cycle, over the topologies of the collapsing specification
NextCollapse == cycles = 0 /\ run_haproxy(CollapseTopologies)

SpecCollapse == Init /\ [][NextCollapse]_vars

\* the characters of the basic-auth strings: a letter, the pair separator, the
\* field separator, the escape and a blank
AuthAlphabet == {"u", ":", ",", "\\", " "}

\* every basic-auth string of at most MaxAuthLen characters, and the example
AuthStrings == UNION {[1..n -> AuthAlphabet] : n \in 0..MaxAuthLen} \cup {ExampleAuth}

\* a process in API mode with any of the basic-auth strings
InitAuth ==
    /\ env \in [HAPROXY_SERVICE_URI : {"service_uri"},
                 HAPROXY_CONTAINER_URI : {"container_uri"},
                 API_AUTH : {"auth"},
                 DEFAULT_SSL_CERT : {""},
                 DEFAULT_CA_CERT : {""},
                 EXTRA_SSL_CERT : {<<>>},
                 HTTP_BASIC_AUTH : AuthStrings]
    /\ Start

\* the first cycle of such a process, no service linked
NextAuth == cycles = 0 /\ run_haproxy({NoSpecs})

SpecAuth == InitAuth /\ [][NextAuth]_vars

(***************************************************************************)
(* Properties.  Every step of a behaviour is one cycle: the unprimed       *)
(* variables are the state the cycle starts from, with `self` the instance *)
(* of the cycle before it, and the primed ones the state it leaves.        *)
(***************************************************************************)
Ran(inst, op) == \E i \in 1..Len(inst.events) : inst.events[i].op = op

Reloads(inst) == Cardinality({i \in 1..Len(inst.events) : inst.events[i].op = "run_reload"})

WriteFailed(inst) == Contains(inst.events, Event("save_to_file", "failed"))

WriteOk(inst) == Contains(inst.events, Event("save_to_file", "ok"))

\* every run_reload of the events comes after an event that satisfies Test
Precedes(events, Test(_)) ==
    \A i \in 1..Len(events) :
        events[i].op = "run_reload" => \E j \in 1..(i - 1) : Test(events[j])

\* the certificates a cycle resolves: leaf and CA
ResolvedCerts(specs) == set(LeafCerts(env, specs)) \cup set(CaCerts(env))

\* C1: a cycle on the topology and certificates of the cycle before it yields
\* the same text and signals no reload.
C1_Idempotence ==
    [][(cycles # 0 /\ self'.specs = self.specs)
          => (self'.cfg = self.cfg /\ Reloads(self') = 0)]_vars

\* C2: a cycle whose text equals Haproxy.cls_cfg and whose resolved certificate
\* set differs from that of the cycle before it signals a reload.
C2_CertChangeReloads ==
    [][(cycles # 0 /\ self'.cfg = cls_cfg /\ ResolvedCerts(self'.specs) # ResolvedCerts(self.specs))
          => Ran(self', "run_reload")]_vars

\* C3: a cycle whose config file write fails leaves Haproxy.cls_cfg and
\* Haproxy.cls_certs as it found them.
C3_StateKeptOnWriteFailure ==
    [][WriteFailed(self') => (cls_cfg' = cls_cfg /\ cls_certs' = cls_certs)]_vars

\* C4: after a cycle whose text differed from the text on disk and whose write
\* failed, a cycle on the same inputs attempts the write again.
C4_RetryAfterFailedWrite ==
    [][(cycles # 0 /\ WriteFailed(self) /\ self.cfg # config_file /\ self'.specs = self.specs)
          => Ran(self', "save_to_file")]_vars

\* C5: in a cycle whose text differs from Haproxy.cls_cfg, every reload comes
\* after a successful write of the config file, and a failed write is followed
\* by no reload.
C5_ReloadOnlyAfterWrite ==
    [][self'.cfg # cls_cfg
          => /\ Precedes(self'.events, LAMBDA e : e = Event("save_to_file", "ok"))
             /\ (WriteFailed(self') => ~Ran(self', "run_reload"))]_vars

C5_Witness ==
    /\ hist.text_differs
    /\ cycles # 0
    /\ WriteOk(self)
    /\ Ran(self, "run_reload")

\* C6: after a cycle whose write succeeded and whose reload failed, the text is
\* committed, and a cycle on the same inputs finds no certificate change and
\* signals no reload.
C6_ReloadFailureCommits ==
    [][(cycles # 0 /\ WriteOk(self) /\ Contains(self.events, Event("run_reload", "failed"))
           /\ self'.specs = self.specs)
          => (cls_cfg = self.cfg /\ ~self'.ssl_updated /\ ~Ran(self', "run_reload"))]_vars

\* C7: a leaf certificate set equal to that of the cycle before it does not
\* count as changed, and neither does the CA certificate set, which is the same
\* in every cycle of a process, whatever the other kind of certificate is.
C7_IndependentComparison ==
    [][cycles # 0
          => /\ (set(LeafCerts(env, self'.specs)) = set(LeafCerts(env, self.specs))
                    => ~self'.leaf_updated)
             /\ ~self'.ca_updated]_vars

\* C8: in a cycle that detects a certificate change, the certificates of each
\* changed kind are saved, and every reload comes after the save.
C8_CertsSavedBeforeReload ==
    (cycles # 0 /\ self.ssl_updated)
        => /\ (self.leaf_updated
                 => /\ Contains(self.events, Event("save_certs", "CERT_DIR"))
                    /\ Precedes(self.events, LAMBDA e : e = Event("save_certs", "CERT_DIR")))
           /\ (self.ca_updated
                 => /\ Contains(self.events, Event("save_certs", "CACERT_DIR"))
                    /\ Precedes(self.events, LAMBDA e : e = Event("save_certs", "CACERT_DIR")))

C8_Witness ==
    /\ cycles # 0
    /\ self.leaf_updated
    /\ self.ca_updated
    /\ Ran(self, "run_reload")

\* the topologies that differ from specs in iteration order only
Reorderings(specs) ==
    {t \in DocTopologies : set(t.services) = set(specs.services) /\ t.ssl_certs = specs.ssl_certs}

\* C9: the document of a cycle is the document of every reordering of its
\* topology: of the services and of the port tokens.
C9_OrderIndependent ==
    cycles # 0
        => \A t \in Reorderings(self.specs) :
               config_dict(env, t, self.ssl_bind_string).cfg_dict = self.cfg_dict

\* the route is among those some TCP section of the topology takes
Consumed(specs, route) ==
    \E i \in 1..Len(specs.port_order) :
        Contains(get_tcp_routes(specs, specs.port_order[i],
                                parse_port_string(specs.port_order[i], <<>>).port_num).routes_added,
                 route)

\* C10: the document has a section `backend default_service` exactly when there
\* are no virtual hosts and some route is consumed by no TCP section, or there
\* are virtual hosts and some service declares no virtual_host.
C10_DefaultBackendPresence ==
    cycles # 0
        => (HasKey(self.cfg_dict, <<"backend", "default_service">>)
              <=> \/ /\ get_vhosts(self.specs) = <<>>
                     /\ \E i \in 1..Len(get_routes(self.specs)) :
                            ~Consumed(self.specs, get_routes(self.specs)[i])
                  \/ /\ get_vhosts(self.specs) # <<>>
                     /\ \E i \in 1..Len(self.specs.services) :
                            self.specs.services[i].virtual_host = "")

\* the policy group of a section: global, defaults, stats, userlist, TCP
\* listeners, frontends, backends
GroupOf(name) ==
    IF name = <<"global">> THEN 1
    ELSE IF name = <<"defaults">> THEN 2
    ELSE IF name = <<"listen", "stats">> THEN 3
    ELSE IF name[1] = "userlist" THEN 4
    ELSE IF name[1] = "listen" THEN 5
    ELSE IF name[1] = "frontend" THEN 6
    ELSE 7

\* C11: in the document of a cycle no section of a later policy group comes
\* before a section of an earlier one, and the three fixed sections lead it.
C11_FixedSectionOrder ==
    cycles # 0
        => /\ \A i, j \in 1..Len(self.cfg_dict) :
                  i < j => GroupOf(self.cfg_dict[i].name) <= GroupOf(self.cfg_dict[j].name)
           /\ SubSeq(Keys(self.cfg_dict), 1, 3) = <<<<"global">>, <<"defaults">>, <<"listen", "stats">>>>

C11_Witness ==
    /\ cycles # 0
    /\ {GroupOf(self.cfg_dict[i].name) : i \in 1..Len(self.cfg_dict)} = 1..7

\* the k-th smallest element of a set of numbers
Nth(S, k) == CHOOSE x \in S : Cardinality({y \in S : y < x}) = k - 1

\* the positions of the commas that separate fields: those not preceded by a backslash
Cuts(str) == {i \in 1..Len(str) : str[i] = "," /\ (i = 1 \/ str[i - 1] # "\\")}

\* the fields between the separating commas, in order
Fields(str) ==
    LET marks == Cuts(str) \cup {0, Len(str) + 1}
    IN  [k \in 1..(Cardinality(marks) - 1) |->
            SubSeq(str, Nth(marks, k) + 1, Nth(marks, k + 1) - 1)]

\* a field without the blanks around it
Trimmed(f) ==
    LET ink == {i \in 1..Len(f) : f[i] # " "}
    IN  IF ink = {} THEN <<>>
        ELSE SubSeq(f, Nth(ink, 1), Nth(ink, Cardinality(ink)))

\* a string with every backslash that stands before a comma dropped
Decoded(s) ==
    LET keep == {i \in 1..Len(s) : ~(s[i] = "\\" /\ i < Len(s) /\ s[i + 1] = ",")}
    IN  [j \in 1..Cardinality(keep) |-> s[Nth(keep, j)]]

\* the user line of a trimmed field that holds a colon
UserLineOf(f) ==
    LET k == Nth({i \in 1..Len(f) : f[i] = ":"}, 1)
    IN  <<"user">> \o Decoded(SubSeq(f, 1, k - 1))
            \o <<"insecure-password">> \o Decoded(SubSeq(f, k + 1, Len(f)))

\* the user lines the basic-auth string stands for
ExpectedUsers(str) ==
    LET fields == [k \in 1..Len(Fields(str)) |-> Trimmed(Fields(str)[k])]
        pairs == SelectSeq(fields, LAMBDA f : Contains(f, ":"))
    IN  [k \in 1..Len(pairs) |-> UserLineOf(pairs[k])]

\* the userlist of the document, empty when it has no such section
UserlistOf(cfg_dict) ==
    IF HasKey(cfg_dict, <<"userlist", "haproxy_userlist">>)
    THEN cfg_dict[GetItem(cfg_dict, <<"userlist", "haproxy_userlist">>)].body
    ELSE <<>>

\* C12: the userlist section holds one user line for each non-blank field with
\* a colon, fields cut at the commas no backslash precedes, name and password
\* cut at the first colon and every escaped comma decoded; the section is
\* absent when there is no such field; the example string gives alice:secret
\* and bob with the password pw,2.
C12_UserlistCorrect ==
    cycles # 0
        => /\ UserlistOf(self.cfg_dict) = ExpectedUsers(env.HTTP_BASIC_AUTH)
           /\ HasKey(self.cfg_dict, <<"userlist", "haproxy_userlist">>)
                  <=> ExpectedUsers(env.HTTP_BASIC_AUTH) # <<>>
           /\ env.HTTP_BASIC_AUTH = ExampleAuth
                  => UserlistOf(self.cfg_dict) =
                        << <<"user", "a", "l", "i", "c", "e", "insecure-password",
                             "s", "e", "c", "r", "e", "t">>,
                           <<"user", "b", "o", "b", "insecure-password", "p", "w", ",", "2">> >>

C12_Witness ==
    /\ cycles # 0
    /\ Len(UserlistOf(self.cfg_dict)) = 2
    /\ \E i \in 1..Len(env.HTTP_BASIC_AUTH) - 1 :
           env.HTTP_BASIC_AUTH[i] = "\\" /\ env.HTTP_BASIC_AUTH[i + 1] = ","

\* C13: without virtual hosts, require_default_route is set, and the default
\* frontend emitted, exactly when some route of the topology is consumed by no
\* TCP section of the cycle; when the TCP sections consume every route there
\* is neither a default frontend nor a `backend default_service`.
C13_DefaultRouteOnlyUnconsumed ==
    (cycles # 0 /\ get_vhosts(self.specs) = <<>>)
        => LET unconsumed == \E i \in 1..Len(get_routes(self.specs)) :
                                 ~Consumed(self.specs, get_routes(self.specs)[i])
           IN  /\ self.require_default_route <=> unconsumed
               /\ HasKey(self.cfg_dict, <<"frontend", "default_frontend">>) <=> unconsumed
               /\ ~unconsumed => ~HasKey(self.cfg_dict, <<"backend", "default_service">>)

\* C14: a cycle writes the config file only when its text differs from
\* Haproxy.cls_cfg; with the text unchanged, a cycle whose resolved certificate
\* set differs from that of the cycle before it signals a reload and writes
\* nothing, and one whose certificate set is the same neither writes nor reloads.
C14_NoRewriteWithoutTextChange ==
    [][/\ Ran(self', "save_to_file") => self'.cfg # cls_cfg
       /\ (cycles # 0 /\ self'.cfg = cls_cfg)
             => IF ResolvedCerts(self'.specs) # ResolvedCerts(self.specs)
                THEN Ran(self', "run_reload") /\ ~Ran(self', "save_to_file")
                ELSE self'.events = <<>>]_vars

\* the port numbers the tokens of the topology resolve to
PortNums(specs) ==
    {parse_port_string(specs.port_order[i], <<>>).port_num : i \in 1..Len(specs.port_order)}

\* the routes of the services that declare some token resolving to port n
RoutesOfPort(specs, n) ==
    {r \in Range(get_routes(specs)) :
        \E i \in 1..Len(specs.port_order) :
            /\ parse_port_string(specs.port_order[i], <<>>).port_num = n
            /\ Contains(get_tcp_routes(specs, specs.port_order[i], n).routes_added, r)}

\* C15: every port number of the topology has exactly one section
\* `listen port_<N>`, and that section holds the routes of every service and
\* every token that resolves to the port.
C15_OneMergedSectionPerPort ==
    cycles # 0
        => \A n \in PortNums(self.specs) :
              /\ Cardinality({i \in 1..Len(self.cfg_dict) :
                                 self.cfg_dict[i].name = <<"listen", "port", n>>}) = 1
              /\ \A r \in RoutesOfPort(self.specs, n) :
                     Contains(self.cfg_dict[GetItem(self.cfg_dict, <<"listen", "port", n>>)].body,
                              ServerLine(r))

\* the aliases that declare no virtual_host, in iteration order
PlainAliases(specs) ==
    get_service_aliases([specs EXCEPT !.services = SelectSeq(specs.services,
                                                            LAMBDA s : s.virtual_host = "")])

\* the server lines of the routes of an alias that no TCP section recorded
OwnLines(inst, alias) ==
    {ServerLine(r) : r \in {x \in Range(get_routes(inst.specs)) :
                              x.alias = alias /\ ~Contains(inst.routes_added, x)}}

BodyOf(cfg_dict, name) == cfg_dict[GetItem(cfg_dict, name)].body

\* C16: with virtual hosts, every alias that declares virtual_host has its
\* section `backend SERVICE_<alias>`; the aliases that declare none share
\* `backend default_service`, which holds the backend of the last of them in
\* iteration order and nothing of the earlier ones; no document has two
\* `backend default_service` sections.
C16_LastWriteWinsCollapsing ==
    cycles # 0
        => /\ Cardinality({i \in 1..Len(self.cfg_dict) :
                              self.cfg_dict[i].name = <<"backend", "default_service">>}) <= 1
           /\ get_vhosts(self.specs) # <<>>
                => LET plain == PlainAliases(self.specs)
                   IN  /\ \A i \in 1..Len(self.specs.services) :
                              self.specs.services[i].virtual_host # ""
                                 => /\ HasKey(self.cfg_dict,
                                              <<"backend", "SERVICE", self.specs.services[i].alias>>)
                                    /\ Range(BodyOf(self.cfg_dict,
                                              <<"backend", "SERVICE", self.specs.services[i].alias>>))
                                          = OwnLines(self, self.specs.services[i].alias)
                       /\ HasKey(self.cfg_dict, <<"backend", "default_service">>) <=> plain # <<>>
                       /\ plain # <<>>
                              => Range(BodyOf(self.cfg_dict, <<"backend", "default_service">>))
                                    = OwnLines(self, plain[Len(plain)])

C16_Witness ==
    /\ cycles # 0
    /\ get_vhosts(self.specs) # <<>>
    /\ Len(PlainAliases(self.specs)) >= 2
    /\ OwnLines(self, PlainAliases(self.specs)[1]) # {}
    /\ OwnLines(self, PlainAliases(self.specs)[1]) # OwnLines(self, PlainAliases(self.specs)[2])
    /\ HasKey(self.cfg_dict, <<"backend", "default_service">>)

\* C17: in a cycle that resolves no leaf certificate the leaf aggregator sets
\* no ssl_updated and leaves Haproxy.cls_certs as it is, and the cycle after
\* it, when it brings back the leaf certificates that were there before the
\* removal, detects no certificate change.
C17_RemovalNotRecorded ==
    [][/\ LeafCerts(env, self'.specs) = <<>>
             => /\ ~self'.leaf_updated
                /\ config_ssl_certs(env, self'.specs, cls_certs).cls_certs = cls_certs
       /\ (/\ cycles # 0
           /\ LeafCerts(env, self.specs) = <<>>
           /\ hist.leaf_before # {}
           /\ set(LeafCerts(env, self'.specs)) = hist.leaf_before)
             => ~self'.ssl_updated]_vars

\* C18: a cycle signals at most one reload, whether its text changed, its
\* certificates changed, or both.
C18_AtMostOneReload ==
    cycles # 0 => Reloads(self) <= 1

C18_Witness ==
    /\ cycles # 0
    /\ hist.text_differs
    /\ self.ssl_updated
    /\ WriteOk(self)
    /\ Reloads(self) = 1

\* C19: outside API mode every cycle writes the config file and calls
\* run_once, signals no reload, and leaves Haproxy.cls_cfg and
\* Haproxy.cls_process as they are, whether or not text or certificates changed.
C19_NoDetectionOutsideApi ==
    [][~ApiMode(env)
          => /\ Ran(self', "save_to_file")
             /\ Ran(self', "run_once")
             /\ ~Ran(self', "run_reload")
             /\ cls_cfg' = cls_cfg
             /\ cls_process' = cls_process]_vars

C19_Witness ==
    /\ ~ApiMode(env)
    /\ cycles = 2
    /\ hist.same_inputs
    /\ ~self.ssl_updated
    /\ self.cfg = config_file
    /\ Ran(self, "save_to_file")
    /\ Ran(self, "run_once")
    /\ cls_cfg = NoCfg

====
